---- MODULE Spec2Model ----
(***************************************************************************)
(* Model of jenkins/cling_build.py: the Builder that resolves a build plan *)
(* from the Jenkins trigger cause, the node label and the caller flags,    *)
(* and then runs clean, configure, make, test, doc publication, packaging  *)
(* and housekeeping in the workspace.  The workspace directories outlive   *)
(* a run, so the model runs the script several times in one workspace.     *)
(***************************************************************************)
EXTENDS Integers, Sequences, FiniteSets, TLC

VARIABLES
    node,       \* the Jenkins node: LABEL, executables on PATH, interpreter
    runs,       \* number of script invocations started in this workspace
    pc,         \* position of the driver in Builder.build
    args,       \* arguments the Jenkins job passed to Builder() in this run
    self,       \* the Builder's fields (self.__dict__)
    cwd,        \* process working directory
    obj,        \* the build-object directory obj/
    inst,       \* the install directories of the workspace, name -> entries
    artifacts,  \* the artifacts/ directory
    doxygen,    \* the staged doxygen/ directory
    srcgit,     \* whether src/.git exists
    log,        \* the 'STEP: ...' lines printed in this run
    calls,      \* the shell commands run in this run, in order
    cleaned,    \* the directories maybe_clean removed (or found absent) in this run
    failed,     \* the operation whose exception ended this run, "" if none
    exitcode    \* process exit status, -1 while the script is running

vars == <<node, runs, pc, args, self, cwd, obj, inst, artifacts, doxygen,
          srcgit, log, calls, cleaned, failed, exitcode>>

(***************************************************************************)
(* Bounds and input sets                                                   *)
(***************************************************************************)
MaxRuns == 2

Labels == {"ubuntu2204", "ubuntu22", "cc7", "win10"}

Dates == {"2024-05-01", "2024-05-02"}

\* ROOT_BUILD_CAUSE: absent from the environment (None) or a string.
None == [isstr |-> FALSE, s |-> ""]

Str(s) == [isstr |-> TRUE, s |-> s]

BuildCauses == {None, Str("MANUALTRIGGER"), Str("TIMERTRIGGER"), Str("SCMTRIGGER"),
                Str("SCMTRIGGER,TIMERTRIGGER"), Str("UPSTREAMTRIGGER")}

\* The cmake executables found on PATH.
PathSets == {{}, {"cmake"}, {"cmake3", "cmake"}}

\* every node: label, PATH and interpreter vary independently
AllNodes == [label : Labels, path : PathSets, py3 : BOOLEAN]

\* the nodes of the pipeline runs: one PATH per label, either interpreter
NodePath ==
    [l \in Labels |->
        CASE l = "ubuntu2204" -> {"cmake"}
          [] l = "ubuntu22" -> {}
          [] l = "cc7" -> {}
          [] l = "win10" -> {"cmake3", "cmake"}]

Nodes == {n \in AllNodes : n.path = NodePath[n.label]}

(***************************************************************************)
(* Python string and file primitives                                       *)
(***************************************************************************)
\* sub in s
Contains(sub, s) ==
    \E i \in 1..(Len(s) - Len(sub) + 1) : SubSeq(s, i, i + Len(sub) - 1) = sub

\* distutils.spawn.find_executable(name): the path found, "" for None
find_executable(name, path) ==
    IF name \in path THEN "/usr/bin/" \o name ELSE ""

\* print_and_call raises exactly when check_call is used and the command fails
print_and_call_unchecked(ok, check) == FALSE

print_and_call(ok, check) == check /\ ~ok

NoDir == [exists |-> FALSE, configured |-> FALSE, report |-> "none"]

EmptyObj == [exists |-> TRUE, configured |-> FALSE, report |-> "none"]

NoArtifacts == [exists |-> FALSE, files |-> {}]

\* the function f without the key d
Without(f, d) == [n \in (DOMAIN f) \ {d} |-> f[n]]

\* the function f with key d set to v
With(f, d, v) == [n \in (DOMAIN f) \cup {d} |-> IF n = d THEN v ELSE f[n]]

NoInst == [n \in {} |-> {}]

(***************************************************************************)
(* Builder.__init__: plan resolution                                       *)
(***************************************************************************)
\* the Jenkins job's generator choice
generatorType(label) ==
    IF Contains("win", label) THEN "Visual Studio 9 2008" ELSE "Unix Makefiles"

\* variant: the SCM test comes first, so a commit beats the nightly
BuildSetup_scm_first(buildcause, cleanbuild, binaries) ==
    IF buildcause.isstr /\ buildcause.s # "MANUALTRIGGER"
    THEN IF Contains("SCMTRIGGER", buildcause.s) THEN <<FALSE, FALSE>>
         ELSE IF Contains("TIMERTRIGGER", buildcause.s) THEN <<TRUE, TRUE>>
         ELSE <<binaries, cleanbuild>>
    ELSE <<binaries, cleanbuild>>

\* variant: the incremental branch forgets to reset binaries
BuildSetup_scm_keeps_binaries(buildcause, cleanbuild, binaries) ==
    IF buildcause.isstr /\ buildcause.s # "MANUALTRIGGER"
    THEN IF Contains("TIMERTRIGGER", buildcause.s) THEN <<TRUE, TRUE>>
         ELSE IF Contains("SCMTRIGGER", buildcause.s) THEN <<binaries, FALSE>>
         ELSE <<binaries, cleanbuild>>
    ELSE <<binaries, cleanbuild>>

\* variant: a manual or absent cause is treated as an incremental build
BuildSetup_default_incremental(buildcause, cleanbuild, binaries) ==
    IF buildcause.isstr /\ Contains("TIMERTRIGGER", buildcause.s)
    THEN <<TRUE, TRUE>>
    ELSE <<FALSE, FALSE>>

\* variant: the nightly is recognised only when the cause is exactly 'TIMERTRIGGER'
BuildSetup_exact_match(buildcause, cleanbuild, binaries) ==
    IF buildcause.isstr /\ buildcause.s # "MANUALTRIGGER"
    THEN IF buildcause.s = "TIMERTRIGGER" THEN <<TRUE, TRUE>>
         ELSE IF Contains("SCMTRIGGER", buildcause.s) THEN <<FALSE, FALSE>>
         ELSE <<binaries, cleanbuild>>
    ELSE <<binaries, cleanbuild>>

\* trigger precedence: <<binaries, cleanbuild>> after the build-setup block
BuildSetup(buildcause, cleanbuild, binaries) ==
    IF buildcause.isstr /\ buildcause.s # "MANUALTRIGGER"
    THEN IF Contains("TIMERTRIGGER", buildcause.s) THEN <<TRUE, TRUE>>
         ELSE IF Contains("SCMTRIGGER", buildcause.s) THEN <<FALSE, FALSE>>
         ELSE <<binaries, cleanbuild>>
    ELSE <<binaries, cleanbuild>>

StampedName(today, label) == "cling_" \o today \o "_" \o label

instdir(binaries, today, label) ==
    IF binaries THEN StampedName(today, label) ELSE "inst"

\* variant: binaries do not force a clean build
BinariesClean_none(binaries, cleanbuild) == cleanbuild

\* binaries force a clean build
BinariesClean(binaries, cleanbuild) == IF binaries THEN TRUE ELSE cleanbuild

\* variant: a missing obj directory does not force configure
ForceConfigure_none(objIsDir, cleanbuild) == cleanbuild

\* a missing obj directory forces configure
ForceConfigure(objIsDir, cleanbuild) == IF ~objIsDir THEN TRUE ELSE cleanbuild

cmakePath(label, path) ==
    IF find_executable("cmake3", path) # "" THEN find_executable("cmake3", path)
    ELSE IF find_executable("cmake", path) # "" THEN find_executable("cmake", path)
    ELSE IF label = "cc7"
         THEN "/cvmfs/sft.cern.ch/lcg/contrib/CMake/3.7.0/Linux-x86_64/bin/cmake"
         ELSE "/usr/local/bin/cmake"

Resolve(a, path, objIsDir) ==
    LET setup == BuildSetup(a.buildcause, a.cleanbuild, a.binaries)
        binaries == setup[1]
    IN  [ today         |-> a.today,
          label         |-> a.label,
          generatorType |-> a.generatorType,
          testcling     |-> a.testcling,
          testllvmclang |-> a.testllvmclang,
          doxygen       |-> Contains("ubuntu22", a.label),
          parallelFlag  |-> IF a.generatorType = "Unix Makefiles" THEN " -- -j8" ELSE "",
          instdir       |-> instdir(binaries, a.today, a.label),
          cleanbuild    |-> ForceConfigure(objIsDir, BinariesClean(binaries, setup[2])),
          binaries      |-> binaries,
          cmake         |-> cmakePath(a.label, path) ]

NoArgs == [label |-> "", generatorType |-> "", cleanbuild |-> FALSE, binaries |-> FALSE,
           buildcause |-> None, testcling |-> FALSE, testllvmclang |-> FALSE,
           today |-> "", objIsDir |-> FALSE]

NoBuilder == [today |-> "", label |-> "", generatorType |-> "", testcling |-> FALSE,
              testllvmclang |-> FALSE, doxygen |-> FALSE, parallelFlag |-> "",
              instdir |-> "", cleanbuild |-> FALSE, binaries |-> FALSE, cmake |-> ""]

Init ==
    /\ node \in Nodes
    /\ runs = 1
    /\ pc = "Idle"
    /\ args = NoArgs
    /\ self = NoBuilder
    /\ cwd = "workspace"
    /\ obj = NoDir
    /\ inst = NoInst
    /\ artifacts = NoArtifacts
    /\ doxygen = ""
    /\ srcgit = TRUE
    /\ log = <<>>
    /\ calls = <<>>
    /\ cleaned = {}
    /\ failed = ""
    /\ exitcode = -1

\* an uncaught exception in operation op ends the process
Raise(op) ==
    /\ pc' = "Aborted"
    /\ failed' = op
    /\ exitcode' = 1

\* bld = cling_build.Builder(...): the job reads its environment and resolves the plan
Builder_init ==
    /\ pc = "Idle"
    /\ \E cleanbuild \in BOOLEAN, binaries \in BOOLEAN, buildcause \in BuildCauses,
          testcling \in BOOLEAN, testllvmclang \in BOOLEAN, today \in Dates :
          LET a == [label |-> node.label,
                    generatorType |-> generatorType(node.label),
                    cleanbuild |-> cleanbuild, binaries |-> binaries,
                    buildcause |-> buildcause, testcling |-> testcling,
                    testllvmclang |-> testllvmclang, today |-> today,
                    objIsDir |-> obj.exists]
          IN  /\ args' = a
              /\ self' = Resolve(a, node.path, obj.exists)
    /\ pc' = "maybe_clean"
    /\ UNCHANGED <<node, runs, cwd, obj, inst, artifacts, doxygen, srcgit,
                   log, calls, cleaned, failed, exitcode>>

\* the record of one shell command and its outcome
Cmd(cmd, ok) == [cmd |-> cmd, ok |-> ok]

\* variant: maybe_clean removes nothing
maybe_clean_skip ==
    /\ pc = "maybe_clean"
    /\ log' = Append(log, "CLEAN")
    /\ pc' = "mkdir_obj"
    /\ UNCHANGED <<node, runs, args, self, cwd, obj, inst, artifacts, doxygen, srcgit,
                   calls, cleaned, failed, exitcode>>

\* maybe_clean: with cleanbuild, remove the install and obj directories
maybe_clean ==
    /\ pc = "maybe_clean"
    /\ log' = Append(log, "CLEAN")
    /\ IF self.cleanbuild
       THEN \/ \* both removals succeed (or find nothing to remove)
               /\ inst' = Without(inst, self.instdir)
               /\ obj' = NoDir
               /\ cleaned' = {self.instdir, "obj"}
               /\ pc' = "mkdir_obj"
               /\ UNCHANGED <<failed, exitcode>>
            \/ \* shutil.rmtree(self.instdir) raises
               /\ self.instdir \in DOMAIN inst
               /\ Raise("maybe_clean")
               /\ UNCHANGED <<inst, obj, cleaned>>
            \/ \* shutil.rmtree('obj') raises
               /\ obj.exists
               /\ inst' = Without(inst, self.instdir)
               /\ cleaned' = {self.instdir}
               /\ Raise("maybe_clean")
               /\ UNCHANGED obj
       ELSE /\ pc' = "mkdir_obj"
            /\ UNCHANGED <<inst, obj, cleaned, failed, exitcode>>
    /\ UNCHANGED <<node, runs, args, self, cwd, artifacts, doxygen, srcgit, calls>>

\* build: mkdir_p('obj'); os.chdir('obj')
mkdir_obj ==
    /\ pc = "mkdir_obj"
    /\ \/ /\ obj' = IF obj.exists THEN obj ELSE EmptyObj
          /\ cwd' = "obj"
          /\ pc' = "configure"
          /\ UNCHANGED <<failed, exitcode>>
       \/ \* os.makedirs raises something other than EEXIST
          /\ ~obj.exists
          /\ Raise("mkdir_p")
          /\ UNCHANGED <<obj, cwd>>
    /\ UNCHANGED <<node, runs, args, self, inst, artifacts, doxygen, srcgit,
                   log, calls, cleaned>>

\* variant: configure runs cmake whether or not cleanbuild is set
configure_always ==
    /\ pc = "configure"
    /\ log' = Append(log, "CONFIGURE")
    /\ \E ok \in BOOLEAN :
          /\ calls' = Append(calls, Cmd("configure", ok))
          /\ IF print_and_call(ok, TRUE)
             THEN Raise("configure") /\ UNCHANGED obj
             ELSE /\ obj' = [obj EXCEPT !.configured = ok]
                  /\ pc' = "make"
                  /\ UNCHANGED <<failed, exitcode>>
    /\ UNCHANGED <<node, runs, args, self, cwd, inst, artifacts, doxygen, srcgit, cleaned>>

\* variant: configure clears self.cleanbuild once cmake has run
configure_resets ==
    /\ pc = "configure"
    /\ log' = Append(log, "CONFIGURE")
    /\ IF self.cleanbuild
       THEN \E ok \in BOOLEAN :
               /\ calls' = Append(calls, Cmd("configure", ok))
               /\ IF print_and_call(ok, TRUE)
                  THEN Raise("configure") /\ UNCHANGED <<obj, self>>
                  ELSE /\ obj' = [obj EXCEPT !.configured = ok]
                       /\ self' = [self EXCEPT !.cleanbuild = FALSE]
                       /\ pc' = "make"
                       /\ UNCHANGED <<failed, exitcode>>
       ELSE /\ pc' = "make"
            /\ UNCHANGED <<calls, obj, self, failed, exitcode>>
    /\ UNCHANGED <<node, runs, args, cwd, inst, artifacts, doxygen, srcgit, cleaned>>

\* configure: with cleanbuild, run cmake on ../src/llvm in obj
configure ==
    /\ pc = "configure"
    /\ log' = Append(log, "CONFIGURE")
    /\ IF self.cleanbuild
       THEN \E ok \in BOOLEAN :
               /\ calls' = Append(calls, Cmd("configure", ok))
               /\ IF print_and_call(ok, TRUE)
                  THEN Raise("configure") /\ UNCHANGED obj
                  ELSE /\ obj' = [obj EXCEPT !.configured = ok]
                       /\ pc' = "make"
                       /\ UNCHANGED <<failed, exitcode>>
       ELSE /\ pc' = "make"
            /\ UNCHANGED <<calls, obj, failed, exitcode>>
    /\ UNCHANGED <<node, runs, args, self, cwd, inst, artifacts, doxygen, srcgit, cleaned>>

\* cmake --build . needs the configuration that cmake wrote into obj
BuildOutcomes == IF obj.configured THEN BOOLEAN ELSE {FALSE}

\* variant: make goes from the default target straight to install
make_skips_doc ==
    /\ pc = "make"
    /\ log' = Append(log, "MAKE")
    /\ \E ok \in BuildOutcomes :
          /\ calls' = Append(calls, Cmd("build", ok))
          /\ IF print_and_call(ok, TRUE)
             THEN Raise("make")
             ELSE pc' = "install" /\ UNCHANGED <<failed, exitcode>>
    /\ UNCHANGED <<node, runs, args, self, cwd, obj, inst, artifacts, doxygen,
                   srcgit, cleaned>>

\* make: self.cmake_build()
make ==
    /\ pc = "make"
    /\ log' = Append(log, "MAKE")
    /\ \E ok \in BuildOutcomes :
          /\ calls' = Append(calls, Cmd("build", ok))
          /\ IF print_and_call(ok, TRUE)
             THEN Raise("make")
             ELSE pc' = "documentation" /\ UNCHANGED <<failed, exitcode>>
    /\ UNCHANGED <<node, runs, args, self, cwd, obj, inst, artifacts, doxygen,
                   srcgit, cleaned>>

\* make: self.documentation()
documentation ==
    /\ pc = "documentation"
    /\ IF self.doxygen
       THEN \E ok \in BuildOutcomes :
               /\ calls' = Append(calls, Cmd("doxygen-cling", ok))
               /\ IF print_and_call(ok, TRUE)
                  THEN Raise("documentation")
                  ELSE pc' = "install" /\ UNCHANGED <<failed, exitcode>>
       ELSE /\ pc' = "install"
            /\ UNCHANGED <<calls, failed, exitcode>>
    /\ UNCHANGED <<node, runs, args, self, cwd, obj, inst, artifacts, doxygen,
                   srcgit, log, cleaned>>

\* what the install target puts under the install prefix
InstallTree == IF self.doxygen THEN {"bin", "docs"} ELSE {"bin"}

\* make: self.cmake_build('install')
install ==
    /\ pc = "install"
    /\ \E ok \in BuildOutcomes :
          /\ calls' = Append(calls, Cmd("install", ok))
          /\ IF print_and_call(ok, TRUE)
             THEN Raise("install") /\ UNCHANGED inst
             ELSE /\ inst' = With(inst, self.instdir, InstallTree)
                  /\ pc' = "maybe_test"
                  /\ UNCHANGED <<failed, exitcode>>
    /\ UNCHANGED <<node, runs, args, self, cwd, obj, artifacts, doxygen,
                   srcgit, log, cleaned>>

\* xunitout.write(str) on a file opened 'wb': fine in Python 2, TypeError in Python 3
WriteStrToBinaryFile(py3) == IF py3 THEN "TypeError" ELSE "written"

\* maybe_test: cling's test suite, or the synthetic xunit report
maybe_test ==
    /\ pc = "maybe_test"
    /\ log' = Append(log, "TEST")
    /\ IF self.testcling
       THEN \E ok \in BuildOutcomes :
               /\ calls' = Append(calls, Cmd("cling-test", ok))
               /\ obj' = [obj EXCEPT !.report = "lit"]
               /\ IF print_and_call(ok, TRUE)
                  THEN Raise("cling-test")
                  ELSE pc' = "check_llvm" /\ UNCHANGED <<failed, exitcode>>
       ELSE /\ UNCHANGED calls
            /\ IF WriteStrToBinaryFile(node.py3) = "written"
               THEN /\ obj' = [obj EXCEPT !.report = "skipped"]
                    /\ pc' = "check_llvm"
                    /\ UNCHANGED <<failed, exitcode>>
               ELSE \* open() has truncated the file, write() raises
                    /\ obj' = [obj EXCEPT !.report = "empty"]
                    /\ Raise("xunit")
    /\ UNCHANGED <<node, runs, args, self, cwd, inst, artifacts, doxygen,
                   srcgit, cleaned>>

\* maybe_test: self.cmake_build('check-llvm')
check_llvm ==
    /\ pc = "check_llvm"
    /\ IF self.testllvmclang
       THEN \E ok \in BuildOutcomes :
               /\ calls' = Append(calls, Cmd("check-llvm", ok))
               /\ IF print_and_call(ok, TRUE)
                  THEN Raise("check-llvm")
                  ELSE pc' = "clang_test" /\ UNCHANGED <<failed, exitcode>>
       ELSE /\ pc' = "scp_documentation"
            /\ UNCHANGED <<calls, failed, exitcode>>
    /\ UNCHANGED <<node, runs, args, self, cwd, obj, inst, artifacts, doxygen,
                   srcgit, log, cleaned>>

\* variant: clang-test is run with check_call
clang_test_checked ==
    /\ pc = "clang_test"
    /\ \E ok \in BuildOutcomes :
          /\ calls' = Append(calls, Cmd("clang-test", ok))
          /\ IF print_and_call(ok, TRUE)
             THEN Raise("clang-test")
             ELSE pc' = "scp_documentation" /\ UNCHANGED <<failed, exitcode>>
    /\ UNCHANGED <<node, runs, args, self, cwd, obj, inst, artifacts, doxygen,
                   srcgit, log, cleaned>>

\* maybe_test: self.cmake_build('clang-test', check=False)
clang_test ==
    /\ pc = "clang_test"
    /\ \E ok \in BuildOutcomes :
          /\ calls' = Append(calls, Cmd("clang-test", ok))
          /\ IF print_and_call(ok, FALSE)
             THEN Raise("clang-test")
             ELSE pc' = "scp_documentation" /\ UNCHANGED <<failed, exitcode>>
    /\ UNCHANGED <<node, runs, args, self, cwd, obj, inst, artifacts, doxygen,
                   srcgit, log, cleaned>>

\* build: os.chdir(self.workspace); scp_documentation: stage the docs, rsync them to EOS
scp_documentation ==
    /\ pc = "scp_documentation"
    /\ cwd' = "workspace"
    /\ log' = Append(log, "COPY DOC TO EOS")
    /\ IF self.doxygen /\ self.binaries
       THEN IF self.instdir \in DOMAIN inst /\ "docs" \in inst[self.instdir]
            THEN \E ok \in BOOLEAN :
                    /\ doxygen' = self.instdir
                    /\ calls' = Append(calls, Cmd("rsync", ok))
                    /\ IF ~ok
                       THEN Raise("scp_documentation")
                       ELSE pc' = "packaging" /\ UNCHANGED <<failed, exitcode>>
            ELSE \* shutil.copytree raises: nothing to copy
                 /\ doxygen' = ""
                 /\ Raise("scp_documentation")
                 /\ UNCHANGED calls
       ELSE /\ pc' = "packaging"
            /\ UNCHANGED <<doxygen, calls, failed, exitcode>>
    /\ UNCHANGED <<node, runs, args, self, obj, inst, artifacts, srcgit, cleaned>>

\* a tar file in artifacts/: its name, what it holds, and the run that wrote it
Bundle(name, entries) == [name |-> name, entries |-> entries, run |-> runs]

\* variant: packaging keeps an existing artifacts/ with its files
packaging_keep ==
    /\ pc = "packaging"
    /\ log' = Append(log, "PACKAGING")
    /\ artifacts' = [exists |-> TRUE, files |-> artifacts.files]
    /\ pc' = IF self.binaries THEN "packaging_docs" ELSE "housekeeping"
    /\ UNCHANGED <<node, runs, args, self, cwd, obj, inst, doxygen, srcgit,
                   calls, cleaned, failed, exitcode>>

\* packaging: recreate artifacts/ empty
packaging ==
    /\ pc = "packaging"
    /\ log' = Append(log, "PACKAGING")
    /\ \/ /\ artifacts' = [exists |-> TRUE, files |-> {}]
          /\ pc' = IF self.binaries THEN "packaging_docs" ELSE "housekeeping"
          /\ UNCHANGED <<failed, exitcode>>
       \/ \* shutil.rmtree('artifacts') raises
          /\ artifacts.exists
          /\ Raise("packaging")
          /\ UNCHANGED artifacts
       \/ \* mkdir_p('artifacts') raises
          /\ artifacts' = NoArtifacts
          /\ Raise("packaging")
    /\ UNCHANGED <<node, runs, args, self, cwd, obj, inst, doxygen, srcgit,
                   calls, cleaned>>

\* packaging: with doxygen, tar the html docs of the install tree
packaging_docs ==
    /\ pc = "packaging_docs"
    /\ IF self.doxygen
       THEN IF self.instdir \in DOMAIN inst /\ "docs" \in inst[self.instdir]
            THEN \/ /\ artifacts' = [artifacts EXCEPT !.files = @ \cup
                           {Bundle("cling_" \o self.today \o "_docs.tar.bz2", {"docs"})}]
                    /\ cwd' = "workspace"
                    /\ pc' = "packaging_instdir"
                    /\ UNCHANGED <<failed, exitcode>>
                 \/ \* tarfile raises
                    /\ cwd' = "instdir/docs"
                    /\ Raise("packaging")
                    /\ UNCHANGED artifacts
            ELSE \* os.chdir raises: no docs directory
                 /\ Raise("packaging")
                 /\ UNCHANGED <<artifacts, cwd>>
       ELSE /\ pc' = "packaging_instdir"
            /\ UNCHANGED <<artifacts, cwd, failed, exitcode>>
    /\ UNCHANGED <<node, runs, args, self, obj, inst, doxygen, srcgit,
                   log, calls, cleaned>>

\* packaging: tar the install directory
packaging_instdir ==
    /\ pc = "packaging_instdir"
    /\ IF self.instdir \in DOMAIN inst
       THEN \/ /\ artifacts' = [artifacts EXCEPT !.files = @ \cup
                      {Bundle(self.instdir \o ".tar.bz2", inst[self.instdir])}]
               /\ pc' = "packaging_sources"
               /\ UNCHANGED <<failed, exitcode>>
            \/ \* tarfile raises
               /\ Raise("packaging")
               /\ UNCHANGED artifacts
       ELSE /\ Raise("packaging")
            /\ UNCHANGED artifacts
    /\ UNCHANGED <<node, runs, args, self, cwd, obj, inst, doxygen, srcgit,
                   log, calls, cleaned>>

\* packaging: on the source-publishing node, strip .git and tar src/
packaging_sources ==
    /\ pc = "packaging_sources"
    /\ IF self.label = "ubuntu22"
       THEN IF srcgit
            THEN \/ /\ srcgit' = FALSE
                    /\ artifacts' = [artifacts EXCEPT !.files = @ \cup
                           {Bundle("cling_" \o self.today \o "_sources.tar.bz2", {"src"})}]
                    /\ pc' = "housekeeping"
                    /\ UNCHANGED <<failed, exitcode>>
                 \/ \* tarfile raises after .git is gone
                    /\ srcgit' = FALSE
                    /\ Raise("packaging")
                    /\ UNCHANGED artifacts
            ELSE \* shutil.rmtree('src/.git') raises: no such directory
                 /\ Raise("packaging")
                 /\ UNCHANGED <<srcgit, artifacts>>
       ELSE /\ pc' = "housekeeping"
            /\ UNCHANGED <<srcgit, artifacts, failed, exitcode>>
    /\ UNCHANGED <<node, runs, args, self, cwd, obj, inst, doxygen,
                   log, calls, cleaned>>

\* variant: housekeeping leaves the install directory in place
housekeeping_skip ==
    /\ pc = "housekeeping"
    /\ log' = Append(log, "HOUSEKEEPING")
    /\ pc' = "Done"
    /\ exitcode' = 0
    /\ UNCHANGED <<node, runs, args, self, cwd, obj, inst, artifacts, doxygen, srcgit,
                   calls, cleaned, failed>>

\* variant: a failing removal sends the driver back to packaging
housekeeping_retry ==
    /\ pc = "housekeeping"
    /\ log' = Append(log, "HOUSEKEEPING")
    /\ \/ /\ inst' = Without(inst, self.instdir)
          /\ pc' = "Done"
          /\ exitcode' = 0
       \/ /\ self.instdir \in DOMAIN inst
          /\ pc' = "packaging"
          /\ UNCHANGED <<inst, exitcode>>
    /\ UNCHANGED <<node, runs, args, self, cwd, obj, artifacts, doxygen, srcgit,
                   calls, cleaned, failed>>

\* variant: a failing removal is caught and logged, the run still ends in Done
housekeeping_tolerant ==
    /\ pc = "housekeeping"
    /\ log' = Append(log, "HOUSEKEEPING")
    /\ \/ inst' = Without(inst, self.instdir)
       \/ self.instdir \in DOMAIN inst /\ UNCHANGED inst
    /\ pc' = "Done"
    /\ exitcode' = 0
    /\ UNCHANGED <<node, runs, args, self, cwd, obj, artifacts, doxygen, srcgit,
                   calls, cleaned, failed>>

\* housekeeping: remove the install directory; build() returns, the script ends
housekeeping ==
    /\ pc = "housekeeping"
    /\ log' = Append(log, "HOUSEKEEPING")
    /\ \/ /\ inst' = Without(inst, self.instdir)
          /\ pc' = "Done"
          /\ exitcode' = 0
          /\ UNCHANGED failed
       \/ \* shutil.rmtree(self.instdir) raises
          /\ self.instdir \in DOMAIN inst
          /\ Raise("housekeeping")
          /\ UNCHANGED inst
    /\ UNCHANGED <<node, runs, args, self, cwd, obj, artifacts, doxygen, srcgit,
                   calls, cleaned>>

\* Jenkins starts the job again in the same workspace
NextRun ==
    /\ pc \in {"Done", "Aborted"}
    /\ runs < MaxRuns
    /\ runs' = runs + 1
    /\ pc' = "Idle"
    /\ args' = NoArgs
    /\ self' = NoBuilder
    /\ cwd' = "workspace"
    /\ log' = <<>>
    /\ calls' = <<>>
    /\ cleaned' = {}
    /\ failed' = ""
    /\ exitcode' = -1
    /\ UNCHANGED <<node, obj, inst, artifacts, doxygen, srcgit>>

Next ==
    \/ Builder_init
    \/ maybe_clean
    \/ mkdir_obj
    \/ configure
    \/ make
    \/ documentation
    \/ install
    \/ maybe_test
    \/ check_llvm
    \/ clang_test
    \/ scp_documentation
    \/ packaging
    \/ packaging_docs
    \/ packaging_instdir
    \/ packaging_sources
    \/ housekeeping
    \/ NextRun

Spec == Init /\ [][Next]_vars

\* one step of the running script: every call it makes returns
RunStep ==
    \/ Builder_init
    \/ maybe_clean
    \/ mkdir_obj
    \/ configure
    \/ make
    \/ documentation
    \/ install
    \/ maybe_test
    \/ check_llvm
    \/ clang_test
    \/ scp_documentation
    \/ packaging
    \/ packaging_docs
    \/ packaging_instdir
    \/ packaging_sources
    \/ housekeeping

\* workspaces that earlier runs on node n leave behind
Workspaces(n) ==
    LET tree == IF Contains("ubuntu22", n.label) THEN {"bin", "docs"} ELSE {"bin"}
        configured == [EmptyObj EXCEPT !.configured = TRUE]
        tested == [configured EXCEPT !.report = "lit"]
    IN  { \* a fresh checkout
          [obj |-> NoDir, inst |-> NoInst, artifacts |-> NoArtifacts],
          \* a run aborted in configure
          [obj |-> EmptyObj, inst |-> NoInst, artifacts |-> NoArtifacts],
          \* a run aborted in the default build target
          [obj |-> configured, inst |-> NoInst, artifacts |-> NoArtifacts],
          \* an incremental run aborted by cling-test
          [obj |-> tested, inst |-> "inst" :> tree, artifacts |-> NoArtifacts],
          \* an incremental run that reached the end
          [obj |-> tested, inst |-> NoInst, artifacts |-> [exists |-> TRUE, files |-> {}]] }

InitLive ==
    /\ node \in Nodes
    /\ runs = 1
    /\ pc = "Idle"
    /\ args = NoArgs
    /\ self = NoBuilder
    /\ cwd = "workspace"
    /\ \E w \in Workspaces(node) :
          obj = w.obj /\ inst = w.inst /\ artifacts = w.artifacts
    /\ doxygen = ""
    /\ srcgit = TRUE
    /\ log = <<>>
    /\ calls = <<>>
    /\ cleaned = {}
    /\ failed = ""
    /\ exitcode = -1

\* one run of the script, which is sequential and waits for each command:
\* a started run keeps going
LiveSpec == InitLive /\ [][RunStep]_vars /\ WF_vars(RunStep)

(***************************************************************************)
(* Plan resolution alone, over every node and every state of obj/          *)
(***************************************************************************)
InitResolve ==
    /\ node \in AllNodes
    /\ runs = 1
    /\ pc = "Idle"
    /\ args = NoArgs
    /\ self = NoBuilder
    /\ cwd = "workspace"
    /\ obj \in {NoDir, EmptyObj, [EmptyObj EXCEPT !.configured = TRUE]}
    /\ inst = NoInst
    /\ artifacts = NoArtifacts
    /\ doxygen = ""
    /\ srcgit = TRUE
    /\ log = <<>>
    /\ calls = <<>>
    /\ cleaned = {}
    /\ failed = ""
    /\ exitcode = -1

NextResolve == Builder_init

SpecResolve == InitResolve /\ [][NextResolve]_vars

(***************************************************************************)
(* Properties                                                              *)
(***************************************************************************)
Range(s) == {s[i] : i \in 1..Len(s)}

\* the commands of this run, without their outcome
Invoked == {c.cmd : c \in Range(calls)}

\* the plan has been resolved in this run
Resolved == pc # "Idle"

IsPrefix(s, t) == Len(s) <= Len(t) /\ SubSeq(t, 1, Len(s)) = s

\* the stage each fatal operation belongs to
FatalStage ==
    [op \in {"maybe_clean", "configure", "make", "documentation", "install",
             "cling-test", "check-llvm", "scp_documentation", "packaging"} |->
        CASE op = "maybe_clean" -> "CLEAN"
          [] op = "configure" -> "CONFIGURE"
          [] op \in {"make", "documentation", "install"} -> "MAKE"
          [] op \in {"cling-test", "check-llvm"} -> "TEST"
          [] op = "scp_documentation" -> "COPY DOC TO EOS"
          [] op = "packaging" -> "PACKAGING"]

\* the commands run with check_call
CheckedCmds == {"configure", "build", "doxygen-cling", "install", "cling-test",
                "check-llvm", "rsync"}

C1_Aborted ==
    /\ failed \in DOMAIN FatalStage =>
          /\ pc = "Aborted"
          /\ exitcode = 1
          /\ log[Len(log)] = FatalStage[failed]
          /\ "HOUSEKEEPING" \notin Range(log)
    /\ \A i \in 1..Len(calls) :
          (calls[i].cmd \in CheckedCmds /\ ~calls[i].ok) =>
              /\ pc = "Aborted"
              /\ i = Len(calls)
              /\ failed \in DOMAIN FatalStage
    /\ failed = "configure" =>
          /\ log = <<"CLEAN", "CONFIGURE">>
          /\ calls = <<Cmd("configure", FALSE)>>

\* C1: a failing call or file operation of Clean, Configure, Build (with doc
\* generation and install), primary Test, upstream Test, Publish Documentation
\* or Packaging sends the run directly to Aborted with a non-zero exit status,
\* and nothing more is printed, run or changed in that run; after a Configure
\* failure only CLEAN and CONFIGURE have run.
C1_FatalAborts ==
    /\ [] C1_Aborted
    /\ [][(pc = "Aborted" /\ runs' = runs) => UNCHANGED vars]_vars

C1_Witness == pc = "Aborted" /\ failed = "configure" /\ self.cleanbuild

Stages == <<"CLEAN", "CONFIGURE", "MAKE", "TEST", "COPY DOC TO EOS", "PACKAGING",
            "HOUSEKEEPING">>

SixStages == <<"CLEAN", "CONFIGURE", "MAKE", "TEST", "PACKAGING", "HOUSEKEEPING">>

\* C2: the stages of a run are a prefix of Clean, Configure, Build, Test,
\* Packaging, Housekeeping, each at most once, and with cleanbuild the
\* configure command only runs after maybe_clean has removed the install and
\* obj directories in this run.
C2_StageOrder ==
    /\ IsPrefix(log, Stages)
    /\ IsPrefix(SelectSeq(log, LAMBDA st : st # "COPY DOC TO EOS"), SixStages)
    /\ (self.cleanbuild /\ "configure" \in Invoked) =>
          /\ cleaned = {self.instdir, "obj"}
          /\ SubSeq(log, 1, 2) = <<"CLEAN", "CONFIGURE">>
          /\ ~obj.configured => calls = <<Cmd("configure", FALSE)>>
          /\ pc = "make" => (self.instdir \notin DOMAIN inst /\ obj.report = "none")

C2_Witness ==
    /\ pc = "Done"
    /\ log = Stages
    /\ runs = 2
    /\ args.objIsDir
    /\ "configure" \in Invoked

NamesTimer(cause) == cause.isstr /\ Contains("TIMERTRIGGER", cause.s)

NamesSCM(cause) == cause.isstr /\ Contains("SCMTRIGGER", cause.s)

\* C3: a trigger cause that names the timer trigger resolves to binaries and
\* cleanbuild both true, whatever the caller flags, the label and obj/.
C3_TimerFullBuild ==
    (Resolved /\ NamesTimer(args.buildcause)) => (self.binaries /\ self.cleanbuild)

C3_Witness ==
    /\ Resolved
    /\ args.buildcause = Str("SCMTRIGGER,TIMERTRIGGER")
    /\ ~args.cleanbuild /\ ~args.binaries /\ args.objIsDir
    /\ self.binaries /\ self.cleanbuild

\* C4 as stated: a cause naming the SCM trigger resolves to binaries and
\* cleanbuild both false.
C4_Original ==
    (Resolved /\ NamesSCM(args.buildcause)) => (~self.binaries /\ ~self.cleanbuild)

\* C4: a trigger cause that names the SCM trigger and not the timer trigger
\* resolves to binaries false, whatever the caller flags, and to cleanbuild
\* false exactly when obj/ exists at resolution (true when it is absent).
C4_SCMIncremental ==
    (Resolved /\ NamesSCM(args.buildcause) /\ ~NamesTimer(args.buildcause)) =>
        /\ ~self.binaries
        /\ self.cleanbuild = ~args.objIsDir

C4_Witness ==
    /\ Resolved
    /\ args.buildcause = Str("SCMTRIGGER")
    /\ args.cleanbuild /\ args.binaries /\ args.objIsDir
    /\ ~self.binaries /\ ~self.cleanbuild

\* the plans resolved from any other caller flags and cause, same date and label
SameDayPlans ==
    {Resolve([args EXCEPT !.cleanbuild = c, !.binaries = b, !.buildcause = bc],
             node.path, o) :
        c \in BOOLEAN, b \in BOOLEAN, bc \in BuildCauses, o \in BOOLEAN}

\* C5: in a resolved plan binaries implies cleanbuild; instdir is
\* cling_<date>_<label> exactly when binaries is true and 'inst' otherwise;
\* any resolution with the same date and label gives the same stamped name.
C5_StampedIffBinaries ==
    Resolved =>
        /\ self.binaries => self.cleanbuild
        /\ self.binaries => self.instdir = "cling_" \o args.today \o "_" \o node.label
        /\ ~self.binaries => self.instdir = "inst"
        /\ self.instdir # "inst" <=> self.binaries
        /\ (\E d \in Dates : Contains(d, self.instdir)) <=> self.binaries
        /\ self.binaries =>
              Contains(args.today, self.instdir) /\ Contains(node.label, self.instdir)
        /\ \A p \in SameDayPlans : p.binaries = self.binaries => p.instdir = self.instdir

C5_Witness ==
    /\ Resolved
    /\ args.buildcause = Str("MANUALTRIGGER")
    /\ args.binaries /\ ~args.cleanbuild /\ args.objIsDir
    /\ self.binaries /\ self.cleanbuild
    /\ self.instdir = "cling_2024-05-02_ubuntu2204"

\* C6: when obj/ does not exist at resolution, cleanbuild resolves to true
\* for every cause and every caller-supplied cleanbuild.
C6_NoObjForcesClean ==
    (Resolved /\ ~args.objIsDir) => self.cleanbuild

C6_Witness ==
    /\ Resolved
    /\ args.buildcause = None
    /\ ~args.cleanbuild /\ ~args.binaries /\ ~args.objIsDir
    /\ self.cleanbuild

\* C7: with the cause absent or 'MANUALTRIGGER', binaries resolves to the
\* caller's value, and cleanbuild resolves to the caller's value whenever
\* binaries is false and obj/ exists.
C7_ManualVerbatim ==
    (Resolved /\ args.buildcause \in {None, Str("MANUALTRIGGER")}) =>
        /\ self.binaries = args.binaries
        /\ (~self.binaries /\ args.objIsDir) => self.cleanbuild = args.cleanbuild

C7_Witness ==
    /\ Resolved
    /\ args.buildcause = Str("MANUALTRIGGER")
    /\ ~args.binaries /\ args.cleanbuild /\ args.objIsDir
    /\ ~self.binaries /\ self.cleanbuild

C8_Tolerated ==
    /\ failed # "clang-test"
    /\ (Cmd("cling-test", FALSE) \in Range(calls) \/ Cmd("check-llvm", FALSE) \in Range(calls)) =>
          /\ pc = "Aborted"
          /\ failed \in {"cling-test", "check-llvm"}
          /\ "clang-test" \notin Invoked
    /\ Cmd("clang-test", FALSE) \in Range(calls) =>
          (pc = "Aborted" => failed \in {"scp_documentation", "packaging", "housekeeping"})

\* C8: a failing clang-test never aborts the run, which goes on to the doc
\* publication, packaging and housekeeping; a failing cling-test or
\* check-llvm always aborts it, and clang-test is then not run.
C8_SecondaryTolerated ==
    /\ [] C8_Tolerated
    /\ [][pc = "clang_test" => pc' = "scp_documentation"]_vars

C8_Witness ==
    /\ pc = "Done"
    /\ Cmd("clang-test", FALSE) \in Range(calls)
    /\ log = Stages

\* the Test stage has been entered with testcling false
TestSkipped == Resolved /\ "TEST" \in Range(log) /\ ~self.testcling

\* C9: when the Test stage runs with testcling false, cling-test is not
\* run, the synthetic report with one skipped test case is in place and the
\* skip does not abort the run.
C9_SkippedReport ==
    TestSkipped =>
        /\ "cling-test" \notin Invoked
        /\ obj.report = "skipped"
        /\ failed # "xunit"

\* Packaging has run to its end in this run
PackagingDone ==
    \/ pc \in {"housekeeping", "Done"}
    \/ pc = "Aborted" /\ failed = "housekeeping"

\* the bundle names packaging can write in this run
RunBundles ==
    {"cling_" \o self.today \o "_docs.tar.bz2", self.instdir \o ".tar.bz2",
     "cling_" \o self.today \o "_sources.tar.bz2"}

\* C10: once Packaging has completed, artifacts/ exists; without binaries it
\* is empty, with binaries it holds only bundles written in this run.
C10_ArtifactsFresh ==
    PackagingDone =>
        /\ artifacts.exists
        /\ ~self.binaries => artifacts.files = {}
        /\ self.binaries =>
              \A f \in artifacts.files : f.run = runs /\ f.name \in RunBundles

C10_Witness ==
    /\ PackagingDone
    /\ runs = 2
    /\ ~self.binaries
    /\ artifacts = [exists |-> TRUE, files |-> {}]
    /\ args.objIsDir

SourcesBundle == "cling_" \o self.today \o "_sources.tar.bz2"

\* C11: on label 'ubuntu2204' every run that completes Packaging with
\* binaries true has stripped src/.git and written the dated source bundle.
C11_SourceSnapshot ==
    (PackagingDone /\ self.binaries /\ self.label = "ubuntu2204") =>
        /\ ~srcgit
        /\ \E f \in artifacts.files : f.name = SourcesBundle /\ f.run = runs

\* C12: with binaries and doxygen, the archive of the install directory
\* written by Packaging does not contain the docs subtree.
C12_NoDocsInBinary ==
    (PackagingDone /\ self.binaries /\ self.doxygen) =>
        \A f \in artifacts.files :
            f.name = self.instdir \o ".tar.bz2" => "docs" \notin f.entries

C14_PlanIsResolved ==
    Resolved => self = Resolve(args, node.path, args.objIsDir)

\* C14: the plan every stage sees, up to Done or Aborted, is the plan
\* __init__ resolved from the arguments; no step of build() changes a field.
C14_PlanImmutable ==
    /\ [] C14_PlanIsResolved
    /\ [][(pc # "Idle" /\ pc' # "Idle") => self' = self]_vars

C14_Witness ==
    /\ pc = "Done"
    /\ self.binaries /\ self.doxygen /\ self.cleanbuild
    /\ self.instdir = "cling_2024-05-01_ubuntu2204"
    /\ self.cmake = "/usr/bin/cmake"
    /\ self.parallelFlag = " -- -j8"

Terminal == {"Done", "Aborted"}

C15_NoReentry ==
    \A i, j \in 1..Len(log) : i # j => log[i] # log[j]

\* C15: every started run reaches Done or Aborted, no stage is entered twice
\* in a run, and nothing moves from Done or Aborted except the start of a new
\* process.
C15_Terminates ==
    /\ (pc = "Idle") ~> (pc \in Terminal)
    /\ [] C15_NoReentry
    /\ [][(pc \in Terminal) => (pc' = "Idle" /\ runs' = runs + 1)]_vars

C15_Witness ==
    /\ pc = "Done"
    /\ args.objIsDir
    /\ log = Stages
    /\ Cmd("clang-test", FALSE) \in Range(calls)

\* C16: a cause that names both the timer and the SCM trigger resolves as a
\* nightly: binaries and cleanbuild true, whatever the caller flags.
C16_TimerWins ==
    (Resolved /\ NamesTimer(args.buildcause) /\ NamesSCM(args.buildcause)) =>
        /\ self.binaries /\ self.cleanbuild
        /\ self.instdir = StampedName(args.today, node.label)

C16_Witness ==
    /\ Resolved
    /\ NamesTimer(args.buildcause) /\ NamesSCM(args.buildcause)
    /\ ~args.binaries /\ ~args.cleanbuild /\ args.objIsDir
    /\ self.binaries /\ self.cleanbuild

\* the Clean step, with the re-creation of obj/, is over: 'STEP: CONFIGURE' is printed
CleanOver == "CONFIGURE" \in Range(log)

C17_Fresh ==
    /\ "configure" \in Invoked <=> (Resolved /\ self.cleanbuild /\ CleanOver)
    /\ (CleanOver /\ self.cleanbuild) => cleaned = {self.instdir, "obj"}
    /\ (pc = "configure" /\ self.cleanbuild) =>
          /\ obj = EmptyObj
          /\ self.instdir \notin DOMAIN inst
          /\ cleaned = {self.instdir, "obj"}
    /\ (Resolved /\ ~self.cleanbuild) => (cleaned = {} /\ obj.exists)

\* C17: cmake configure runs exactly in the runs with cleanbuild whose Clean
\* step went through, and then on an obj/ that was absent or removed in this
\* run and recreated empty; without cleanbuild, Clean and Configure remove
\* nothing, run nothing and leave obj/ and the install directories alone.
C17_ConfigureOnFresh ==
    /\ [] C17_Fresh
    /\ [][(pc \in {"maybe_clean", "mkdir_obj", "configure"} /\ ~self.cleanbuild) =>
             (obj' = obj /\ inst' = inst /\ calls' = calls /\ pc' # "Aborted")]_vars

C17_Witness ==
    /\ pc = "make"
    /\ self.cleanbuild
    /\ args.objIsDir
    /\ calls = <<Cmd("configure", TRUE)>>
    /\ obj = [EmptyObj EXCEPT !.configured = TRUE]

\* the position of command cmd in calls, 0 if it has not run
CallIndex(cmd) ==
    IF cmd \in Invoked
    THEN CHOOSE i \in 1..Len(calls) : calls[i].cmd = cmd
    ELSE 0

\* C18 as stated: doxygen-cling is only invoked once install has finished
\* and the Test stage is over.
C18_Original ==
    "doxygen-cling" \in Invoked =>
        /\ "install" \in Invoked
        /\ CallIndex("install") < CallIndex("doxygen-cling")
        /\ "COPY DOC TO EOS" \in Range(log)

\* C18: a run that reaches Done has gone through Clean, Configure, Make,
\* Test, doc publication, Packaging and Housekeeping in that order, and the
\* doxygen-cling target runs inside Make: right after the default build
\* target has succeeded, before install and before the Test stage.
C18_DocInsideBuild ==
    /\ pc = "Done" => log = Stages
    /\ "doxygen-cling" \in Invoked =>
          /\ self.doxygen
          /\ CallIndex("doxygen-cling") = CallIndex("build") + 1
          /\ calls[CallIndex("build")].ok
          /\ "install" \in Invoked => CallIndex("install") = CallIndex("doxygen-cling") + 1
          /\ Cmd("doxygen-cling", FALSE) \in Range(calls) => "TEST" \notin Range(log)
    /\ ("install" \in Invoked /\ self.doxygen) => "doxygen-cling" \in Invoked
    /\ "TEST" \in Range(log) => Cmd("install", TRUE) \in Range(calls)

C18_Witness ==
    /\ pc = "Done"
    /\ self.doxygen
    /\ log = Stages
    /\ CallIndex("build") + 1 = CallIndex("doxygen-cling")
    /\ CallIndex("install") < CallIndex("cling-test")

\* C19: configure is only skipped, and the default build target only run,
\* in an obj/ that holds the configuration of a successful configure.
C19_BuildOnlyConfigured ==
    /\ pc = "make" => obj.configured
    /\ "build" \in Invoked => obj.configured

InstdirBundle == self.instdir \o ".tar.bz2"

\* C20: at Done the plan's install directory is gone and artifacts/ exists;
\* with binaries the archive of the install tree written in this run holds
\* the installed tree, and with doxygen the staged doxygen/ copy that was
\* rsynced came from that install directory.
C20_DoneState ==
    pc = "Done" =>
        /\ self.instdir \notin DOMAIN inst
        /\ artifacts.exists
        /\ log = Stages
        /\ self.binaries =>
              /\ \E f \in artifacts.files :
                    /\ f.name = InstdirBundle
                    /\ f.run = runs
                    /\ "bin" \in f.entries
              /\ self.doxygen =>
                    /\ doxygen = self.instdir
                    /\ Cmd("rsync", TRUE) \in Range(calls)

C20_Witness ==
    /\ pc = "Done"
    /\ self.binaries /\ self.doxygen
    /\ doxygen = self.instdir
    /\ DOMAIN inst = {}
    /\ Cardinality(artifacts.files) = 2
====
